---- MODULE Spec2Model ----
(***************************************************************************)
(* Model of WithdrawCircuit::synthesize (src/circuits/withdraw_circuit.rs). *)
(*                                                                         *)
(* The circuit is a conjunction of constraints over a witness.  The model  *)
(* walks the batch slot by slot exactly as synthesize does, keeps the      *)
(* running root `state_wit`, the list `children` that is committed to      *)
(* aux_data, and `sat`, the conjunction of every constraint enforced so    *)
(* far (the constraint system is satisfied by the witness iff sat holds    *)
(* when synthesize returns).                                               *)
(*                                                                         *)
(* Field elements are tagged pairs: <<"f", k>> is the numeral k of the      *)
(* (scaled down) prime field, <<"poseidon", args>> is the Poseidon hash of *)
(* args.  Hashes are symbolic terms, i.e. collision free and never equal   *)
(* to a numeral; an EdDSA signature scalar is the term <<"eddsa", ...>>,   *)
(* i.e. unforgeable.                                                       *)
(***************************************************************************)
EXTENDS Integers, Sequences, FiniteSets, TLC

\* Const generics of WithdrawCircuit.
LOG4_BATCH_SIZE == 1
LOG4_TREE_SIZE == 1
LOG4_TOKENS_TREE_SIZE == 1

\* Scaled-down order of the scalar field and width of the amount range check
\* (alloc_64 in the source).
FieldOrder == 31
AmountBits == 2

RECURSIVE Pow2(_)
Pow2(n) == IF n = 0 THEN 1 ELSE 2 * Pow2(n - 1)

\* 1 << (2 * LOG4_BATCH_SIZE)
BatchSize == Pow2(2 * LOG4_BATCH_SIZE)

VARIABLES
    height,       \* public input
    state,        \* public input: the prior root
    aux_data,     \* public input, drawn when synthesize constrains it
    next_state,   \* public input, drawn when synthesize constrains it
    pc,           \* "slots", "aux", "next", "done"
    slot,         \* number of slots synthesized so far
    transitions,  \* the slots synthesized so far (prefix of self.transitions.0)
    root_before,  \* state_wit before that slot
    state_wit,    \* the running root
    children,     \* the leaves committed to aux_data
    sat           \* every constraint enforced so far holds

vars == <<height, state, aux_data, next_state, pc, slot, transitions, root_before,
          state_wit, children, sat>>

----------------------------------------------------------------------------
(* Field arithmetic and gadgets *)

\* u64 / u32 / token id -> field element (".into()")
F(k) == <<"f", k % FieldOrder>>

\* Number::zero()
Zero == F(0)

\* BellmanFr::one()
One == F(1)

\* Number + Number, Number - Number on numerals
FAdd(a, b) == F(a[2] + b[2])
FSub(a, b) == F(a[2] + FieldOrder - b[2])

\* poseidon::poseidon
Poseidon(args) == <<"poseidon", args>>

\* common::mux(cs, select, a, b): a when select is false, b when it is true
mux(select, a, b) == IF select THEN b ELSE a

\* Boolean / AllocatedBit as a field element
BitNum(b) == IF b THEN One ELSE Zero

\* UnsignedInteger::alloc(cs, val, bits): satisfiable iff val fits in bits
FitsBits(val, bits) == val >= 0 /\ val < Pow2(bits)

\* Points of the curve that the model knows: the identity and two keys.
\* Every other pair of coordinates, (0,0) included, is off the curve.
Identity == <<F(0), F(1)>>
KeyA == <<F(1), F(2)>>
KeyB == <<F(3), F(4)>>
OffCurve == <<F(0), F(0)>>
CurvePoints == {Identity, KeyA, KeyB}

\* AllocatedPoint::assert_on_curve(cs, enabled)
assert_on_curve(p, enabled) == enabled => p \in CurvePoints

\* The signature that the holder of pk produces on msg.
Sign(pk, msg) == [r |-> Identity, s |-> <<"eddsa", <<pk, Identity, msg>>>>]

\* eddsa::verify_eddsa(cs, enabled, pk, msg, sig_r, sig_s)
verify_eddsa(enabled, pk, msg, sig_r, sig_s) ==
    enabled => sig_s = <<"eddsa", <<pk, sig_r, msg>>>>

\* One level of merkle::calc_root_poseidon4: the value goes to position pos
\* (two index bits), the three siblings fill the other positions in order.
merge_hash_poseidon4(pos, v, p) ==
    Poseidon(CASE pos = 0 -> <<v, p[1], p[2], p[3]>>
               [] pos = 1 -> <<p[1], v, p[2], p[3]>>
               [] pos = 2 -> <<p[1], p[2], v, p[3]>>
               [] pos = 3 -> <<p[1], p[2], p[3], v>>)

\* merkle::calc_root_poseidon4(cs, index, val, proof), leaf level first
RECURSIVE calc_root_poseidon4(_, _, _)
calc_root_poseidon4(index, val, proof) ==
    IF proof = <<>> THEN val
    ELSE calc_root_poseidon4(index \div 4,
                             merge_hash_poseidon4(index % 4, val, Head(proof)),
                             Tail(proof))

\* merkle::check_proof_poseidon4(cs, enabled, index, val, proof, root)
check_proof_poseidon4(enabled, index, val, proof, root) ==
    enabled => calc_root_poseidon4(index, val, proof) = root

\* zeekit::reveal::reveal of a Struct of Scalars
RevealStruct(fields) == Poseidon(fields)

\* zeekit::reveal::reveal of a List: base-4 Merkle root over the items
RECURSIVE RevealLayer(_)
RevealLayer(leaves) ==
    IF Len(leaves) = 1 THEN leaves[1]
    ELSE RevealLayer([k \in 1..(Len(leaves) \div 4) |->
             Poseidon(<<leaves[4*k - 3], leaves[4*k - 2], leaves[4*k - 1], leaves[4*k]>>)])

reveal(items) == RevealLayer([k \in 1..Len(items) |-> RevealStruct(items[k])])

----------------------------------------------------------------------------
(* Records of the witness *)

\* Money (token id, u64 amount)
Money(token_id, amount) == [token_id |-> token_id, amount |-> amount]

\* jubjub::Signature::default() and merkle::Proof::<N>::default()
DefaultSig == [r |-> OffCurve, s |-> Zero]
DefaultProof(n) == [k \in 1..n |-> <<Zero, Zero, Zero>>]

\* Withdraw::default()
DefaultWithdraw ==
    [index |-> 0, token_index |-> 0, fee_token_index |-> 0,
     pub_key |-> OffCurve, fingerprint |-> Zero, nonce |-> 0,
     sig |-> DefaultSig, amount |-> Money(0, 0), fee |-> Money(0, 0)]

\* MpnAccount::default() (the fields that the circuit reads)
DefaultAccount == [tx_nonce |-> 0, withdraw_nonce |-> 0, address |-> OffCurve]

\* WithdrawTransition::default(): the padding slot
DefaultTransition ==
    [enabled |-> FALSE,
     tx |-> DefaultWithdraw,
     before |-> DefaultAccount,
     before_token_balance |-> Money(0, 0),
     before_fee_balance |-> Money(0, 0),
     proof |-> DefaultProof(LOG4_TREE_SIZE),
     token_balance_proof |-> DefaultProof(LOG4_TOKENS_TREE_SIZE),
     before_token_hash |-> Zero,
     fee_balance_proof |-> DefaultProof(LOG4_TOKENS_TREE_SIZE)]

----------------------------------------------------------------------------
(* The committed state: a base-4 tree of account leaves, each holding the  *)
(* root of a base-4 tree of balance leaves.                                *)

BalanceLeaf(m) == Poseidon(<<F(m.token_id), F(m.amount)>>)

BalanceRoot(tokens) == Poseidon([k \in 1..4 |-> BalanceLeaf(tokens[k])])

AccountLeaf(a) ==
    Poseidon(<<F(a.tx_nonce), F(a.withdraw_nonce), a.address[1], a.address[2],
               BalanceRoot(a.tokens)>>)

StateRoot(accounts) == Poseidon([k \in 1..4 |-> AccountLeaf(accounts[k])])

NoTokens == <<Money(0, 0), Money(0, 0), Money(0, 0), Money(0, 0)>>

\* The ledger that the public prior state commits to: two funded accounts
\* (token 1 in balance leaf 0, token 2 in balance leaf 1) and two empty ones.
Ledger0 ==
    << [tx_nonce |-> 0, withdraw_nonce |-> 0, address |-> KeyA,
        tokens |-> <<Money(1, 2), Money(2, 1), Money(0, 0), Money(0, 0)>>],
       [tx_nonce |-> 1, withdraw_nonce |-> 1, address |-> KeyB,
        tokens |-> <<Money(1, 1), Money(2, 2), Money(0, 0), Money(0, 0)>>],
       [tx_nonce |-> 0, withdraw_nonce |-> 0, address |-> Identity, tokens |-> NoTokens],
       [tx_nonce |-> 0, withdraw_nonce |-> 0, address |-> Identity, tokens |-> NoTokens] >>

\* Reading a committed root back (hashes are symbolic, so a root determines
\* its leaves).
AccountLeafAt(root, index) == root[2][index + 1]
AccountTxNonceAt(root, index) == AccountLeafAt(root, index)[2][1]
AccountWithdrawNonceAt(root, index) == AccountLeafAt(root, index)[2][2]
AccountAddressAt(root, index) ==
    <<AccountLeafAt(root, index)[2][3], AccountLeafAt(root, index)[2][4]>>
BalanceRootAt(root, index) == AccountLeafAt(root, index)[2][5]
BalanceLeafAt(root, index, token_index) == BalanceRootAt(root, index)[2][token_index + 1]
TokenIdAt(root, index, token_index) == BalanceLeafAt(root, index, token_index)[2][1]
AmountAt(root, index, token_index) == BalanceLeafAt(root, index, token_index)[2][2]

\* The three siblings of position pos among four children, in order.
Siblings(nodes, pos) ==
    CASE pos = 0 -> <<nodes[2], nodes[3], nodes[4]>>
      [] pos = 1 -> <<nodes[1], nodes[3], nodes[4]>>
      [] pos = 2 -> <<nodes[1], nodes[2], nodes[4]>>
      [] pos = 3 -> <<nodes[1], nodes[2], nodes[3]>>

----------------------------------------------------------------------------
(* Witnesses: the transitions that a prover can put into a slot             *)

\* The message that a withdrawal signs: hash(fingerprint, nonce)
TxHash(fingerprint, nonce) == Poseidon(<<fingerprint, F(nonce)>>)

\* The transition that the state provider builds for a withdrawal of
\* `amount` from balance leaf token_index and `fee` from balance leaf
\* fee_token_index of account `index`, with proofs against `root`
\* (bazuka::mpn::WithdrawTransition as converted by from_bazuka).
WellFormedTransition(root, index, token_index, fee_token_index, amount, fee) ==
    LET tokens == BalanceRootAt(root, index)[2]
        token_id == TokenIdAt(root, index, token_index)
        before_amount == AmountAt(root, index, token_index)
        middle == [tokens EXCEPT ![token_index + 1] =
                      Poseidon(<<token_id, FSub(before_amount, F(amount))>>)]
        fee_leaf == middle[fee_token_index + 1][2]
        nonce == AccountWithdrawNonceAt(root, index)[2] + 1
        address == AccountAddressAt(root, index)
        fingerprint == F(7)
    IN  [enabled |-> TRUE,
         tx |-> [index |-> index, token_index |-> token_index,
                 fee_token_index |-> fee_token_index,
                 pub_key |-> address, fingerprint |-> fingerprint, nonce |-> nonce,
                 sig |-> Sign(address, TxHash(fingerprint, nonce)),
                 amount |-> Money(token_id[2], amount),
                 fee |-> Money(fee_leaf[1][2], fee)],
         before |-> [tx_nonce |-> AccountTxNonceAt(root, index)[2],
                     withdraw_nonce |-> nonce - 1,
                     address |-> address],
         before_token_balance |-> Money(token_id[2], before_amount[2]),
         before_fee_balance |-> Money(fee_leaf[1][2], fee_leaf[2][2]),
         proof |-> <<Siblings(root[2], index)>>,
         token_balance_proof |-> <<Siblings(tokens, token_index)>>,
         before_token_hash |-> BalanceRootAt(root, index),
         fee_balance_proof |-> <<Siblings(middle, fee_token_index)>>]

\* Money.amount is a u64: a balance leaf that no longer holds one cannot be
\* put into before_token_balance / before_fee_balance.
Representable(t) ==
    /\ FitsBits(t.before_token_balance.amount, AmountBits)
    /\ FitsBits(t.before_fee_balance.amount, AmountBits)

\* The root that the state provider holds after it has applied the
\* withdrawal t to the ledger under root.
LedgerRootAfter(root, t) ==
    LET fields == AccountLeafAt(root, t.tx.index)[2]
        tokens == fields[5][2]
        token_leaf == tokens[t.tx.token_index + 1][2]
        middle == [tokens EXCEPT ![t.tx.token_index + 1] =
                      Poseidon(<<token_leaf[1], FSub(token_leaf[2], F(t.tx.amount.amount))>>)]
        fee_leaf == middle[t.tx.fee_token_index + 1][2]
        final == [middle EXCEPT ![t.tx.fee_token_index + 1] =
                      Poseidon(<<fee_leaf[1], FSub(fee_leaf[2], F(t.tx.fee.amount))>>)]
    IN  Poseidon([root[2] EXCEPT ![t.tx.index + 1] =
                      Poseidon(<<fields[1], FAdd(fields[2], One), fields[3], fields[4],
                                 Poseidon(final)>>)])

SwapFirstTwo(proof) == <<<<proof[1][2], proof[1][1], proof[1][3]>>>>

\* A slot that is disabled and is not the default one: nonce and token ids
\* are consistent, everything that the enabled gate covers is garbage.
DisabledGarbage ==
    [DefaultTransition EXCEPT !.tx.nonce = 1,
                              !.tx.sig = [r |-> OffCurve, s |-> F(5)],
                              !.tx.amount = Money(3, 1),
                              !.before_token_balance = Money(3, 0)]

\* Variants of a well-formed transition t, each differing from it in one
\* respect.
Tampered(root, prior, t) ==
    { \* replayed nonce, signed for that nonce
      [t EXCEPT !.tx.nonce = t.before.withdraw_nonce,
                !.tx.sig = Sign(t.tx.pub_key,
                                TxHash(t.tx.fingerprint, t.before.withdraw_nonce))],
      \* amount / fee in another token than the balance leaf
      [t EXCEPT !.tx.amount.token_id = 3],
      [t EXCEPT !.tx.fee.token_id = 3],
      \* a key other than the account's address, with that key's signature
      [t EXCEPT !.tx.pub_key = KeyB,
                !.tx.sig = Sign(KeyB, TxHash(t.tx.fingerprint, t.tx.nonce))],
      \* a key off the curve
      [t EXCEPT !.tx.pub_key = OffCurve,
                !.tx.sig = Sign(OffCurve, TxHash(t.tx.fingerprint, t.tx.nonce))],
      \* a signature that does not verify
      [t EXCEPT !.tx.sig.s = F(5)],
      \* another amount than the one the proofs were built for
      [t EXCEPT !.tx.amount.amount = 2],
      \* a sibling list that is not the one of the tree
      [t EXCEPT !.proof = SwapFirstTwo(t.proof)],
      [t EXCEPT !.token_balance_proof = SwapFirstTwo(t.token_balance_proof)],
      [t EXCEPT !.fee_balance_proof = SwapFirstTwo(t.fee_balance_proof)],
      \* the same transition, disabled
      [t EXCEPT !.enabled = FALSE] }
    \cup
    \* the transition as built against the public prior state
    { u \in {WellFormedTransition(prior, t.tx.index, t.tx.token_index,
                                  t.tx.fee_token_index, t.tx.amount.amount,
                                  t.tx.fee.amount)} : Representable(u) }
    \cup
    \* the transition that follows t on the same account, put in its place
    { u \in {WellFormedTransition(LedgerRootAfter(root, t), t.tx.index, t.tx.token_index,
                                  t.tx.fee_token_index, t.tx.amount.amount,
                                  t.tx.fee.amount)} : Representable(u) }

\* The withdrawals a slot may carry: (index, token_index, fee_token_index).
Withdrawals == {<<0, 0, 1>>, <<1, 0, 1>>, <<0, 0, 0>>}

\* A field element that is the root of a tree of account leaves.
IsHash(x, n) == x[1] = "poseidon" /\ Len(x[2]) = n
IsBalanceLeaf(x) == IsHash(x, 2) /\ x[2][1][1] = "f" /\ x[2][2][1] = "f"
IsBalanceRoot(x) == IsHash(x, 4) /\ \A k \in 1..4 : IsBalanceLeaf(x[2][k])
IsAccountLeaf(x) ==
    /\ IsHash(x, 5)
    /\ \A k \in 1..4 : x[2][k][1] = "f"
    /\ IsBalanceRoot(x[2][5])
IsStateRoot(x) == IsHash(x, 4) /\ \A k \in 1..4 : IsAccountLeaf(x[2][k])

\* The state provider has withdrawals to offer only against a root that
\* commits to a ledger.
WellFormed(root) ==
    IF IsStateRoot(root)
    THEN { t \in { WellFormedTransition(root, w[1], w[2], w[3], 1, 1) : w \in Withdrawals } :
             Representable(t) }
    ELSE {}

\* Everything a slot may hold when the running root is `root`.
Candidates(root, prior) ==
    {DefaultTransition, DisabledGarbage,
     [DisabledGarbage EXCEPT !.tx.fee.token_id = 3]}
    \cup WellFormed(root)
    \cup { u \in WellFormed(prior) : u.tx.index = 0 /\ u.tx.fee_token_index = 1 }
    \cup UNION { Tampered(root, prior, t) :
                   t \in { u \in WellFormed(root) : u.tx.index = 0 /\ u.tx.fee_token_index = 1 } }

----------------------------------------------------------------------------
(* synthesize: the values and constraints of one slot                      *)

\* First loop: hash of the call data and the committed leaf of the slot.
calldata_hash(t) ==
    Poseidon(<<t.tx.pub_key[1], t.tx.pub_key[2], F(t.tx.nonce),
               t.tx.sig.r[1], t.tx.sig.r[2], t.tx.sig.s>>)

\* The call data hash committed without the select.
calldata_Unselected(t) == calldata_hash(t)

calldata(t) == mux(t.enabled, Zero, calldata_hash(t))

Child(t) ==
    <<BitNum(t.enabled), F(t.tx.amount.token_id), F(t.tx.amount.amount),
      F(t.tx.fee.token_id), F(t.tx.fee.amount), t.tx.fingerprint, calldata(t)>>

\* UnsignedInteger::alloc_64 of the amount and of the fee
AmountRangeOk(t) ==
    /\ FitsBits(t.tx.amount.amount, AmountBits)
    /\ FitsBits(t.tx.fee.amount, AmountBits)

\* UnsignedInteger::alloc of the three indices
IndexWidthOk(t) ==
    /\ FitsBits(t.tx.index, 2 * LOG4_TREE_SIZE)
    /\ FitsBits(t.tx.token_index, 2 * LOG4_TOKENS_TREE_SIZE)
    /\ FitsBits(t.tx.fee_token_index, 2 * LOG4_TOKENS_TREE_SIZE)

\* The curve checks with the gate always on.
CurveOk_Ungated(t) ==
    /\ assert_on_curve(t.tx.pub_key, TRUE)
    /\ assert_on_curve(t.tx.sig.r, TRUE)
    /\ assert_on_curve(t.before.address, TRUE)

\* assert_on_curve of the public key, of sig.r and of the account address
CurveOk(t) ==
    /\ assert_on_curve(t.tx.pub_key, t.enabled)
    /\ assert_on_curve(t.tx.sig.r, t.enabled)
    /\ assert_on_curve(t.before.address, t.enabled)

tx_hash_wit(t) == Poseidon(<<t.tx.fingerprint, F(t.tx.nonce)>>)

SignatureOk(t) ==
    verify_eddsa(t.enabled, t.tx.pub_key, tx_hash_wit(t), t.tx.sig.r, t.tx.sig.s)

\* src_token_id_wit == tx_amount_token_id_wit
TokenIdOk(t) == F(t.before_token_balance.token_id) = F(t.tx.amount.token_id)

\* The fee token id linkage behind the enabled gate.
FeeTokenIdOk_Gated(t) ==
    t.enabled => F(t.before_fee_balance.token_id) = F(t.tx.fee.token_id)

\* src_fee_token_id_wit == tx_fee_token_id_wit
FeeTokenIdOk(t) == F(t.before_fee_balance.token_id) = F(t.tx.fee.token_id)

src_token_balance_hash_wit(t) ==
    Poseidon(<<F(t.before_token_balance.token_id), F(t.before_token_balance.amount)>>)

TokenProofOk(t) ==
    check_proof_poseidon4(t.enabled, t.tx.token_index, src_token_balance_hash_wit(t),
                          t.token_balance_proof, t.before_token_hash)

new_token_balance_hash_wit(t) ==
    Poseidon(<<F(t.before_token_balance.token_id),
               FSub(F(t.before_token_balance.amount), F(t.tx.amount.amount))>>)

balance_middle_root(t) ==
    calc_root_poseidon4(t.tx.token_index, new_token_balance_hash_wit(t),
                        t.token_balance_proof)

src_fee_token_balance_hash_wit(t) ==
    Poseidon(<<F(t.before_fee_balance.token_id), F(t.before_fee_balance.amount)>>)

FeeProofOk(t) ==
    check_proof_poseidon4(t.enabled, t.tx.fee_token_index,
                          src_fee_token_balance_hash_wit(t),
                          t.fee_balance_proof, balance_middle_root(t))

\* The fee leaf computed from the balance before the amount was debited.
new_fee_token_balance_hash_wit_FromTokenBalance(t) ==
    Poseidon(<<F(t.before_fee_balance.token_id),
               FSub(F(t.before_token_balance.amount), F(t.tx.fee.amount))>>)

\* The fee leaf written back without the fee taken off.
new_fee_token_balance_hash_wit_NoDebit(t) ==
    Poseidon(<<F(t.before_fee_balance.token_id), F(t.before_fee_balance.amount)>>)

new_fee_token_balance_hash_wit(t) ==
    Poseidon(<<F(t.before_fee_balance.token_id),
               FSub(F(t.before_fee_balance.amount), F(t.tx.fee.amount))>>)

src_hash_wit(t) ==
    Poseidon(<<F(t.before.tx_nonce), F(t.before.withdraw_nonce),
               t.before.address[1], t.before.address[2], t.before_token_hash>>)

\* The account inclusion with the gate inverted.
AccountProofOk_GateInverted(t, root) ==
    check_proof_poseidon4(~t.enabled, t.tx.index, src_hash_wit(t), t.proof, root)

\* The account inclusion checked against the public prior state.
AccountProofOk_Prior(t, root) ==
    check_proof_poseidon4(t.enabled, t.tx.index, src_hash_wit(t), t.proof, state)

\* inclusion of the account leaf in the running root
AccountProofOk(t, root) ==
    check_proof_poseidon4(t.enabled, t.tx.index, src_hash_wit(t), t.proof, root)

\* The nonce check behind the enabled gate.
NonceOk_Gated(t) == t.enabled => F(t.tx.nonce) = FAdd(F(t.before.withdraw_nonce), One)

\* tx_nonce_wit * 1 == src_withdraw_nonce_wit + 1
NonceOk(t) == F(t.tx.nonce) = FAdd(F(t.before.withdraw_nonce), One)

balance_final_root(t) ==
    calc_root_poseidon4(t.tx.fee_token_index, new_fee_token_balance_hash_wit(t),
                        t.fee_balance_proof)

\* The new account leaf with the withdraw nonce left as it was.
new_hash_wit_NoIncrement(t) ==
    Poseidon(<<F(t.before.tx_nonce), F(t.before.withdraw_nonce),
               t.tx.pub_key[1], t.tx.pub_key[2], balance_final_root(t)>>)

new_hash_wit(t) ==
    Poseidon(<<F(t.before.tx_nonce), FAdd(F(t.before.withdraw_nonce), One),
               t.tx.pub_key[1], t.tx.pub_key[2], balance_final_root(t)>>)

\* The candidate root recomputed at the neighbouring index.
next_state_wit_WrongIndex(t) ==
    calc_root_poseidon4((t.tx.index + 1) % Pow2(2 * LOG4_TREE_SIZE), new_hash_wit(t), t.proof)

\* the candidate root of the slot
next_state_wit(t) == calc_root_poseidon4(t.tx.index, new_hash_wit(t), t.proof)

\* Fold with the two branches of the select exchanged.
Fold_Swapped(root, t) == mux(t.enabled, next_state_wit(t), root)

\* state_wit = mux(enabled, state_wit, next_state_wit)
Fold(root, t) == mux(t.enabled, root, next_state_wit(t))

\* Every constraint that the two loops enforce for one slot.
SlotConstraints(t, root) ==
    /\ AmountRangeOk(t)
    /\ IndexWidthOk(t)
    /\ CurveOk(t)
    /\ SignatureOk(t)
    /\ TokenIdOk(t)
    /\ TokenProofOk(t)
    /\ FeeTokenIdOk(t)
    /\ FeeProofOk(t)
    /\ AccountProofOk(t, root)
    /\ NonceOk(t)

----------------------------------------------------------------------------
(* The state machine *)

\* A public input that synthesize has not constrained yet.
Unread == <<"unread">>

Heights == {0, 1}

Init ==
    /\ height \in Heights
    /\ state = StateRoot(Ledger0)
    /\ aux_data = Unread
    /\ next_state = Unread
    /\ pc = "slots"
    /\ slot = 0
    /\ transitions = <<>>
    /\ root_before = StateRoot(Ledger0)
    /\ state_wit = StateRoot(Ledger0)
    /\ children = <<>>
    /\ sat = TRUE

\* The slot step with the outcome of the earlier slots dropped: only the
\* constraints of the slot at hand decide.
SynthesizeSlot_Forgetful ==
    /\ pc = "slots"
    /\ slot < BatchSize
    /\ \E t \in Candidates(state_wit, state) :
         /\ transitions' = Append(transitions, t)
         /\ children' = Append(children, Child(t))
         /\ sat' = SlotConstraints(t, state_wit)
         /\ state_wit' = Fold(state_wit, t)
    /\ root_before' = state_wit
    /\ slot' = slot + 1
    /\ pc' = IF slot + 1 = BatchSize THEN "aux" ELSE "slots"
    /\ UNCHANGED <<height, state, aux_data, next_state>>

\* One slot of the batch: its iteration of the loop that builds the
\* commitment and its iteration of the loop that checks and folds it.
SynthesizeSlot ==
    /\ pc = "slots"
    /\ slot < BatchSize
    /\ \E t \in Candidates(state_wit, state) :
         /\ transitions' = Append(transitions, t)
         /\ children' = Append(children, Child(t))
         /\ sat' = (sat /\ SlotConstraints(t, state_wit))
         /\ state_wit' = Fold(state_wit, t)
    /\ root_before' = state_wit
    /\ slot' = slot + 1
    /\ pc' = IF slot + 1 = BatchSize THEN "aux" ELSE "slots"
    /\ UNCHANGED <<height, state, aux_data, next_state>>

tx_root == reveal(children)

\* The commitment of a batch of default slots.
DefaultCommitment == reveal([k \in 1..BatchSize |-> Child(DefaultTransition)])

\* aux_wit * 1 == tx_root
EnforceAux ==
    /\ pc = "aux"
    /\ \E a \in {tx_root, DefaultCommitment} :
         /\ aux_data' = a
         /\ sat' = (sat /\ a = tx_root)
    /\ pc' = "next"
    /\ UNCHANGED <<height, state, next_state, slot, transitions, root_before, state_wit, children>>

\* The last constraint with height tied to a value as well.
EnforceNextState_HeightBound ==
    /\ pc = "next"
    /\ \E n \in {state_wit, state} :
         /\ next_state' = n
         /\ sat' = (sat /\ state_wit = n /\ height = 0)
    /\ pc' = "done"
    /\ UNCHANGED <<height, state, aux_data, slot, transitions, root_before, state_wit, children>>

\* state_wit * 1 == claimed_next_state_wit
EnforceNextState ==
    /\ pc = "next"
    /\ \E n \in {state_wit, state} :
         /\ next_state' = n
         /\ sat' = (sat /\ state_wit = n)
    /\ pc' = "done"
    /\ UNCHANGED <<height, state, aux_data, slot, transitions, root_before, state_wit, children>>

Next == SynthesizeSlot \/ EnforceAux \/ EnforceNextState

Spec == Init /\ [][Next]_vars

----------------------------------------------------------------------------
(* WithdrawTransitionBatch::new and Default.  In this specification         *)
(* `transitions` is the vector `ts` of new(): the list passed in while      *)
(* pc = "new", the batch returned afterwards.                               *)

\* Longest list handed to new().
MaxInputLen == 5

\* jubjub::PointCompressed and its decompress()
compress(p) == <<"compressed", p>>
decompress(c) == c[2]

\* The bazuka::mpn::WithdrawTransition that the state provider hands over
\* for the withdrawal t.
BazukaTransition(t) ==
    [tx |-> [zk_address_index |-> t.tx.index,
             zk_token_index |-> t.tx.token_index,
             zk_fee_token_index |-> t.tx.fee_token_index,
             zk_address |-> compress(t.tx.pub_key),
             zk_nonce |-> t.tx.nonce,
             zk_sig |-> t.tx.sig,
             payment |-> [fingerprint |-> t.tx.fingerprint,
                          amount |-> t.tx.amount,
                          fee |-> t.tx.fee]],
     before |-> t.before,
     before_token_hash |-> t.before_token_hash,
     before_token_balance |-> t.before_token_balance,
     before_fee_balance |-> t.before_fee_balance,
     proof |-> t.proof,
     token_balance_proof |-> t.token_balance_proof,
     fee_balance_proof |-> t.fee_balance_proof]

\* A real transition converted with enabled = false.
from_bazuka_Disabled(b) ==
    [enabled |-> FALSE,
     tx |-> [index |-> b.tx.zk_address_index,
             token_index |-> b.tx.zk_token_index,
             fee_token_index |-> b.tx.zk_fee_token_index,
             pub_key |-> decompress(b.tx.zk_address),
             fingerprint |-> b.tx.payment.fingerprint,
             nonce |-> b.tx.zk_nonce,
             sig |-> b.tx.zk_sig,
             amount |-> b.tx.payment.amount,
             fee |-> b.tx.payment.fee],
     before |-> b.before,
     before_token_balance |-> b.before_token_balance,
     before_fee_balance |-> b.before_fee_balance,
     proof |-> b.proof,
     token_balance_proof |-> b.token_balance_proof,
     before_token_hash |-> b.before_token_hash,
     fee_balance_proof |-> b.fee_balance_proof]

\* WithdrawTransition::from_bazuka
from_bazuka(b) ==
    [enabled |-> TRUE,
     tx |-> [index |-> b.tx.zk_address_index,
             token_index |-> b.tx.zk_token_index,
             fee_token_index |-> b.tx.zk_fee_token_index,
             pub_key |-> decompress(b.tx.zk_address),
             fingerprint |-> b.tx.payment.fingerprint,
             nonce |-> b.tx.zk_nonce,
             sig |-> b.tx.zk_sig,
             amount |-> b.tx.payment.amount,
             fee |-> b.tx.payment.fee],
     before |-> b.before,
     before_token_balance |-> b.before_token_balance,
     before_fee_balance |-> b.before_fee_balance,
     proof |-> b.proof,
     token_balance_proof |-> b.token_balance_proof,
     before_token_hash |-> b.before_token_hash,
     fee_balance_proof |-> b.fee_balance_proof]

\* while ts.len() < 1 << (2 * LOG4_BATCH_SIZE) { ts.push(default) }
RECURSIVE PadToCapacity(_)
PadToCapacity(ts) ==
    IF Len(ts) < BatchSize THEN PadToCapacity(Append(ts, DefaultTransition)) ELSE ts

\* WithdrawTransitionBatch::new
new(ts) == PadToCapacity([k \in 1..Len(ts) |-> from_bazuka(ts[k])])

\* WithdrawTransitionBatch::default
default == [k \in 1..BatchSize |-> DefaultTransition]

\* The withdrawals that the state provider can offer against the prior state.
BazukaInputs == { BazukaTransition(t) : t \in WellFormed(StateRoot(Ledger0)) }

InputLists == UNION { [1..n -> BazukaInputs] : n \in 0..MaxInputLen }

InitNew ==
    /\ height \in Heights
    /\ state = StateRoot(Ledger0)
    /\ aux_data = Unread
    /\ next_state = Unread
    /\ pc = "new"
    /\ slot = 0
    /\ transitions \in InputLists
    /\ root_before = StateRoot(Ledger0)
    /\ state_wit = StateRoot(Ledger0)
    /\ children = <<>>
    /\ sat = TRUE

BatchNew ==
    /\ pc = "new"
    /\ transitions' = new(transitions)
    /\ pc' = "built"
    /\ UNCHANGED <<height, state, aux_data, next_state, slot, root_before, state_wit,
                   children, sat>>

BatchDefault ==
    /\ pc = "new"
    /\ transitions' = default
    /\ pc' = "default"
    /\ UNCHANGED <<height, state, aux_data, next_state, slot, root_before, state_wit,
                   children, sat>>

NextNew == BatchNew \/ BatchDefault

SpecNew == InitNew /\ [][NextNew]_vars

----------------------------------------------------------------------------
(* Properties *)

\* The slot synthesized last.
trans == transitions[slot]

\* The running root after the first n slots, folded from the public state.
RECURSIVE FoldSlots(_, _)
FoldSlots(acc, ts) ==
    IF ts = <<>> THEN acc
    ELSE FoldSlots(IF Head(ts).enabled THEN next_state_wit(Head(ts)) ELSE acc, Tail(ts))

\* The instance is fully synthesized and its witness satisfies it.
Satisfied == pc = "done" /\ sat

\* C1: in a satisfying instance next_state is the left-to-right fold of the
\* slots from state (an enabled slot replaces the accumulator by its
\* candidate root, a disabled one keeps it); with every slot disabled
\* next_state = state.
C1_NextStateIsFold ==
    Satisfied =>
        /\ next_state = FoldSlots(state, transitions)
        /\ (\A k \in 1..Len(transitions) : ~transitions[k].enabled) => next_state = state

C1_Witness ==
    /\ Satisfied
    /\ \E k \in 1..Len(transitions) : transitions[k].enabled
    /\ \E k \in 1..Len(transitions) : ~transitions[k].enabled
    /\ next_state # state

C3_DefaultBatchAccepted ==
    ( /\ pc = "done"
      /\ \A k \in 1..Len(transitions) : transitions[k] = DefaultTransition
      /\ next_state = state
      /\ aux_data = DefaultCommitment ) => sat

\* The account leaf and balance root that C4 describes, computed from the
\* leaves of the root before the slot.
C4_ExpectedBalanceRoot(root, t) ==
    LET tokens == BalanceRootAt(root, t.tx.index)[2]
        middle == [tokens EXCEPT ![t.tx.token_index + 1] =
                     Poseidon(<<F(t.tx.amount.token_id),
                                FSub(AmountAt(root, t.tx.index, t.tx.token_index),
                                     F(t.tx.amount.amount))>>)]
        final == [middle EXCEPT ![t.tx.fee_token_index + 1] =
                     Poseidon(<<F(t.tx.fee.token_id),
                                FSub(middle[t.tx.fee_token_index + 1][2][2],
                                     F(t.tx.fee.amount))>>)]
    IN  Poseidon(final)

\* C4: after an enabled slot whose checks pass, the running root is the
\* root before the slot with the account leaf at tx.index carrying
\* withdraw_nonce + 1 and the balance root with the token leaf and then the
\* fee leaf debited.
C4_EnabledUpdate ==
    (slot > 0 /\ sat /\ pc \in {"slots", "aux"} /\ trans.enabled) =>
        /\ AccountWithdrawNonceAt(state_wit, trans.tx.index)
             = FAdd(AccountWithdrawNonceAt(root_before, trans.tx.index), One)
        /\ BalanceRootAt(state_wit, trans.tx.index)
             = C4_ExpectedBalanceRoot(root_before, trans)

C4_Witness ==
    /\ slot > 1 /\ sat /\ pc \in {"slots", "aux"} /\ trans.enabled
    /\ trans.tx.token_index # trans.tx.fee_token_index
    /\ root_before # state

\* C5: an enabled slot leaves address and tx_nonce of the account leaf as
\* they were in the leaf whose inclusion was checked.
C5_AddressAndTxNonceKept ==
    (slot > 0 /\ sat /\ trans.enabled) =>
        /\ AccountAddressAt(state_wit, trans.tx.index)
             = AccountAddressAt(root_before, trans.tx.index)
        /\ AccountTxNonceAt(state_wit, trans.tx.index)
             = AccountTxNonceAt(root_before, trans.tx.index)

\* C6: an enabled slot whose account proof fits the public prior state,
\* after an earlier enabled slot changed the running root, makes the
\* instance unsatisfiable.
C6_ProofAgainstRunningRoot ==
    ( /\ slot > 0
      /\ trans.enabled
      /\ root_before # state
      /\ calc_root_poseidon4(trans.tx.index, src_hash_wit(trans), trans.proof) = state )
    => ~sat

C6_Witness ==
    /\ slot = 2
    /\ transitions[1].enabled
    /\ trans.enabled
    /\ root_before # state
    /\ calc_root_poseidon4(trans.tx.index, src_hash_wit(trans), trans.proof) = state
    /\ SignatureOk(trans) /\ NonceOk(trans) /\ TokenProofOk(trans) /\ FeeProofOk(trans)
    /\ ~sat

\* The checks of a slot that the enabled gate does not cover.
UngatedChecks(t) ==
    /\ AmountRangeOk(t) /\ IndexWidthOk(t)
    /\ t.tx.amount.token_id = t.before_token_balance.token_id
    /\ t.tx.fee.token_id = t.before_fee_balance.token_id
    /\ t.tx.nonce = t.before.withdraw_nonce + 1

\* C7: a disabled slot keeps the running root, and whether the constraints
\* still hold after it does not depend on its signature, curve points or
\* inclusion proofs.
C7_DisabledSlotNeutral ==
    [][ (slot' = slot + 1 /\ ~transitions'[slot'].enabled) =>
          /\ state_wit' = state_wit
          /\ sat' = (sat /\ UngatedChecks(transitions'[slot'])) ]_vars

\* A disabled slot with an invalid signature, off-curve points and broken
\* proofs, whose candidate root is not the running root, after which the
\* constraints still hold.
C7_Witness ==
    /\ slot > 0 /\ sat /\ ~trans.enabled
    /\ trans.tx.pub_key \notin CurvePoints
    /\ trans.tx.sig.r \notin CurvePoints
    /\ trans.before.address \notin CurvePoints
    /\ ~verify_eddsa(TRUE, trans.tx.pub_key, tx_hash_wit(trans), trans.tx.sig.r, trans.tx.sig.s)
    /\ ~check_proof_poseidon4(TRUE, trans.tx.token_index, src_token_balance_hash_wit(trans),
                              trans.token_balance_proof, trans.before_token_hash)
    /\ ~check_proof_poseidon4(TRUE, trans.tx.fee_token_index,
                              src_fee_token_balance_hash_wit(trans),
                              trans.fee_balance_proof, balance_middle_root(trans))
    /\ ~check_proof_poseidon4(TRUE, trans.tx.index, src_hash_wit(trans), trans.proof,
                              root_before)
    /\ next_state_wit(trans) # state_wit
    /\ state_wit = root_before

C9_ExpectedLeaf(t) ==
    <<IF t.enabled THEN One ELSE Zero,
      F(t.tx.amount.token_id), F(t.tx.amount.amount),
      F(t.tx.fee.token_id), F(t.tx.fee.amount), t.tx.fingerprint,
      IF t.enabled
      THEN Poseidon(<<t.tx.pub_key[1], t.tx.pub_key[2], F(t.tx.nonce),
                      t.tx.sig.r[1], t.tx.sig.r[2], t.tx.sig.s>>)
      ELSE Zero>>

\* C9: in a satisfying instance aux_data is the commitment over the ordered
\* slots of (enabled, amount token id, amount, fee token id, fee,
\* fingerprint, calldataHash), calldataHash being the hash of the call data
\* of an enabled slot and zero for a disabled one.
C9_AuxDataIsCommitment ==
    Satisfied =>
        aux_data = reveal([k \in 1..Len(transitions) |-> C9_ExpectedLeaf(transitions[k])])

\* A satisfying instance with an enabled slot and a disabled slot that
\* carries a key on the curve and a verifying signature.
C9_Witness ==
    /\ Satisfied
    /\ \E k \in 1..Len(transitions) : transitions[k].enabled
    /\ \E k \in 1..Len(transitions) :
         /\ ~transitions[k].enabled
         /\ transitions[k].tx.pub_key \in CurvePoints
         /\ SignatureOk([transitions[k] EXCEPT !.enabled = TRUE])

\* C10: after a satisfied batch every balance leaf holds an amount in
\* [0, 2^AmountBits).
C10_NoNegativeBalance ==
    Satisfied =>
        \A index \in 0..3, token_index \in 0..3 :
            AmountAt(next_state, index, token_index)[2] < Pow2(AmountBits)

\* C11: new and Default yield a batch of exactly 4^LOG4_BATCH_SIZE slots,
\* whatever the list passed in (a longer list is not kept over-long).
C11_BatchLengthIsCapacity ==
    pc \in {"built", "default"} => Len(transitions) = BatchSize

\* C19: new keeps the real transitions as a prefix in their input order,
\* each enabled; every slot after them is the default disabled slot.
C19_NewKeepsPrefixAndPads ==
    [][ (pc = "new" /\ pc' = "built") =>
          /\ Len(transitions') >= Len(transitions)
          /\ \A k \in 1..Len(transitions) :
               /\ transitions'[k].enabled
               /\ transitions'[k].tx.index = transitions[k].tx.zk_address_index
               /\ transitions'[k].tx.token_index = transitions[k].tx.zk_token_index
               /\ transitions'[k].tx.fee_token_index = transitions[k].tx.zk_fee_token_index
               /\ transitions'[k].tx.nonce = transitions[k].tx.zk_nonce
               /\ transitions'[k].tx.sig = transitions[k].tx.zk_sig
               /\ transitions'[k].tx.amount = transitions[k].tx.payment.amount
               /\ transitions'[k].tx.fee = transitions[k].tx.payment.fee
               /\ transitions'[k].before = transitions[k].before
               /\ transitions'[k].proof = transitions[k].proof
               /\ transitions'[k].token_balance_proof = transitions[k].token_balance_proof
               /\ transitions'[k].fee_balance_proof = transitions[k].fee_balance_proof
          /\ \A k \in (Len(transitions) + 1)..Len(transitions') :
               /\ transitions'[k] = DefaultTransition
               /\ ~transitions'[k].enabled ]_vars

\* A batch built from two different real transitions and padding.
C19_Witness ==
    /\ pc = "built"
    /\ Len(transitions) = BatchSize
    /\ transitions[1].enabled /\ transitions[2].enabled
    /\ transitions[1].tx.index # transitions[2].tx.index
    /\ transitions[3] = DefaultTransition
    /\ transitions[BatchSize] = DefaultTransition

\* The running root that slot k is checked against.
RootBeforeSlot(k) == FoldSlots(state, SubSeq(transitions, 1, k - 1))

\* Slot k passes every check that synthesize makes for it.
SlotPasses(k) == SlotConstraints(transitions[k], RootBeforeSlot(k))

C13_MiddleLeaves(t, root) ==
    [BalanceRootAt(root, t.tx.index)[2] EXCEPT ![t.tx.token_index + 1] =
        Poseidon(<<F(t.before_token_balance.token_id),
                   FSub(F(t.before_token_balance.amount), F(t.tx.amount.amount))>>)]

\* (1) the token leaf of t is the leaf at token_index of before_token_hash
C13_TokenIncluded(t, root) ==
    /\ t.before_token_hash[1] = "poseidon"
    /\ t.before_token_hash[2][t.tx.token_index + 1]
         = Poseidon(<<F(t.before_token_balance.token_id), F(t.before_token_balance.amount)>>)
    /\ t.token_balance_proof = <<Siblings(t.before_token_hash[2], t.tx.token_index)>>

\* (2) the fee leaf of t is the leaf at fee_token_index of the middle root
C13_FeeIncluded(t, root) ==
    /\ C13_MiddleLeaves(t, root)[t.tx.fee_token_index + 1]
         = Poseidon(<<F(t.before_fee_balance.token_id), F(t.before_fee_balance.amount)>>)
    /\ t.fee_balance_proof = <<Siblings(C13_MiddleLeaves(t, root), t.tx.fee_token_index)>>

\* (3) the account leaf built from before_token_hash is the leaf at index of
\* the running root
C13_AccountIncluded(t, root) ==
    /\ AccountLeafAt(root, t.tx.index)
         = Poseidon(<<F(t.before.tx_nonce), F(t.before.withdraw_nonce),
                      t.before.address[1], t.before.address[2], t.before_token_hash>>)
    /\ t.proof = <<Siblings(root[2], t.tx.index)>>

\* the signature of t is the one over hash(fingerprint, nonce) under its key
C13_SignatureValid(t) ==
    t.tx.sig.s = <<"eddsa", <<t.tx.pub_key, t.tx.sig.r,
                              Poseidon(<<t.tx.fingerprint, F(t.tx.nonce)>>)>>>>

\* C13: in a satisfied prefix every enabled slot has its token leaf under
\* before_token_hash, its fee leaf under the middle root and its account
\* leaf under the running root, each with the siblings of the tree, and a
\* valid signature; a slot changed in a sibling, token id, amount or
\* signature is unsatisfiable.
C13_NestedInclusion ==
    sat =>
        \A k \in 1..Len(transitions) :
            transitions[k].enabled =>
                /\ C13_AccountIncluded(transitions[k], RootBeforeSlot(k))
                /\ C13_TokenIncluded(transitions[k], RootBeforeSlot(k))
                /\ C13_FeeIncluded(transitions[k], RootBeforeSlot(k))
                /\ C13_SignatureValid(transitions[k])
                /\ F(transitions[k].tx.amount.token_id)
                     = F(transitions[k].before_token_balance.token_id)

\* After a valid enabled slot, an enabled slot whose token leaf and account
\* leaf are included and whose signature is valid, but whose fee leaf is not
\* under the middle root (its amount was changed): unsatisfiable.
C13_Witness ==
    /\ slot = 2
    /\ transitions[1].enabled /\ SlotPasses(1)
    /\ trans.enabled
    /\ C13_AccountIncluded(trans, root_before)
    /\ C13_TokenIncluded(trans, root_before)
    /\ C13_SignatureValid(trans)
    /\ ~C13_FeeIncluded(trans, root_before)
    /\ ~sat

\* Satisfiability as a function of state, aux_data, next_state and the
\* batch alone.
C14_SatisfiableWithoutHeight ==
    /\ \A k \in 1..Len(transitions) : SlotPasses(k)
    /\ aux_data = reveal([k \in 1..Len(transitions) |-> Child(transitions[k])])
    /\ next_state = FoldSlots(state, transitions)

\* C14: whether the instance is satisfied is determined by state, aux_data,
\* next_state and the batch, so it is the same for every value of height.
C14_HeightUnconstrained ==
    pc = "done" => (sat <=> C14_SatisfiableWithoutHeight)

\* A satisfied instance whose height is not the smallest one.
C14_Witness ==
    /\ Satisfied
    /\ height # 0
    /\ \E k \in 1..Len(transitions) : transitions[k].enabled

\* C15: in a satisfied prefix two enabled slots i < j on the same account
\* have nonce(j) > nonce(i), and nonce(j) = nonce(i) + 1 when no enabled
\* slot on that account lies between them.
C15_NoReplayInBatch ==
    sat =>
        \A i, j \in 1..Len(transitions) :
            ( /\ i < j
              /\ transitions[i].enabled /\ transitions[j].enabled
              /\ transitions[i].tx.index = transitions[j].tx.index )
            => /\ transitions[j].tx.nonce > transitions[i].tx.nonce
               /\ (\A m \in (i + 1)..(j - 1) :
                      ~(transitions[m].enabled
                        /\ transitions[m].tx.index = transitions[i].tx.index))
                  => transitions[j].tx.nonce = transitions[i].tx.nonce + 1

\* A satisfied prefix with two withdrawals on account 0 around one on
\* account 1.
C15_Witness ==
    /\ sat /\ slot = 3
    /\ \A k \in 1..3 : transitions[k].enabled
    /\ transitions[1].tx.index = 0
    /\ transitions[2].tx.index = 1
    /\ transitions[3].tx.index = 0
    /\ transitions[3].tx.nonce = transitions[1].tx.nonce + 1

\* C16: an enabled slot is satisfiable only if the key that its signature
\* is verified under is the address of the account leaf it debits.
C16_SignedByAccountAddress ==
    (slot > 0 /\ sat /\ trans.enabled) =>
        /\ C13_SignatureValid(trans)
        /\ trans.tx.pub_key = AccountAddressAt(root_before, trans.tx.index)

\* C17: an enabled slot that passes changes no account leaf but the one at
\* tx.index and, in it, no balance leaf but those at token_index and
\* fee_token_index; accounts that no enabled slot indexes are as in state.
C17_Frame ==
    sat =>
        /\ (slot > 0 /\ trans.enabled) =>
             /\ \A a \in 0..3 :
                  a # trans.tx.index =>
                      AccountLeafAt(state_wit, a) = AccountLeafAt(root_before, a)
             /\ \A b \in 0..3 :
                  b \notin {trans.tx.token_index, trans.tx.fee_token_index} =>
                      BalanceLeafAt(state_wit, trans.tx.index, b)
                        = BalanceLeafAt(root_before, trans.tx.index, b)
        /\ \A a \in 0..3 :
             (\A k \in 1..Len(transitions) :
                 ~(transitions[k].enabled /\ transitions[k].tx.index = a))
             => AccountLeafAt(state_wit, a) = AccountLeafAt(state, a)

\* A satisfied prefix of two enabled slots on account 0: the root changed,
\* account 1 holds balances and was not touched.
C17_Witness ==
    /\ sat /\ slot = 2
    /\ transitions[1].enabled /\ trans.enabled
    /\ transitions[1].tx.index = 0 /\ trans.tx.index = 0
    /\ state_wit # root_before
    /\ root_before # state
    /\ AccountLeafAt(state, 1) # AccountLeafAt(state, 2)

\* C18: an enabled slot with token_index = fee_token_index passes only if
\* before_fee_balance is the debited token leaf, and the leaf then holds
\* before amount - amount - fee.
C18_SameLeafDebitedTwice ==
    (slot > 0 /\ sat /\ trans.enabled /\ trans.tx.token_index = trans.tx.fee_token_index) =>
        /\ F(trans.before_fee_balance.token_id) = F(trans.before_token_balance.token_id)
        /\ F(trans.before_fee_balance.amount)
             = FSub(F(trans.before_token_balance.amount), F(trans.tx.amount.amount))
        /\ AmountAt(state_wit, trans.tx.index, trans.tx.token_index)
             = FSub(FSub(AmountAt(root_before, trans.tx.index, trans.tx.token_index),
                         F(trans.tx.amount.amount)),
                    F(trans.tx.fee.amount))

C18_Witness ==
    /\ slot > 0 /\ sat /\ trans.enabled
    /\ trans.tx.token_index = trans.tx.fee_token_index
    /\ trans.tx.amount.amount > 0 /\ trans.tx.fee.amount > 0

====
